---- MODULE Spec2Model ----
(***************************************************************************)
(* Wellnest anomaly-detection core: the per-household daily state tracker, *)
(* the rule evaluator and the two-layer alert de-duplication of            *)
(* app/services/anomaly_detector.py, with the scheduled check of           *)
(* app/scheduler/anomaly_scheduler.py and the alert acknowledgement of     *)
(* app/api/dashboard_endpoints.py.                                         *)
(*                                                                         *)
(* Time is counted in minutes since midnight of day 0 (UTC).  A step of a  *)
(* task is one completed store/channel round trip followed by the          *)
(* synchronous code up to the next round trip (asyncio runs everything     *)
(* between two awaits of real I/O without interleaving).                   *)
(*                                                                         *)
(* Optional values: None is the empty sequence, Some(x) is <<x>>.  An      *)
(* "HH:MM" string is the pair <<h, m>>.                                    *)
(***************************************************************************)
EXTENDS Integers, Sequences, FiniteSets, TLC

VARIABLES
    clock,            \* wall clock, minutes
    events,           \* "events" collection, in insertion order
    alerts,           \* "alerts" collection (set of documents)
    pushed,           \* alert ids delivered to the notification channel
    baselines,        \* "routine_baselines": household -> None | Some(baseline)
    baseline_cache,   \* AnomalyDetector.baseline_cache (dict)
    household_state,  \* AnomalyDetector.household_state (dict)
    last_check_time,  \* AnomalyDetector.last_check_time (dict)
    recent_alerts,    \* AnomalyDetector.recent_alerts (dict of dict)
    state_locks,      \* AnomalyDetector.state_locks: household -> holder
    task,             \* the running coroutines and their local variables
    lastSched,        \* clock value of the last cron firing
    nIngested,        \* number of events ingested so far
    nAcks,            \* number of acknowledgements so far
    nRestarts,        \* number of restarts so far
    log,              \* observations of the last step (history variable)
    state_day,        \* date on which household_state[h] was built (history)
    rp_input,         \* replay: the events to apply
    rp_order,         \* replay: indices of rp_input applied so far, in order
    rp_state,         \* replay: the state the events are applied to
    rl_in,            \* rules: the (state, baseline, now) to evaluate
    rl_out,           \* rules: None | Some(the anomalies found)
    fn_in,            \* a pure function of the repository: its argument
    fn_out,           \* a pure function of the repository: None | Some(result)
    daily_routines,   \* "daily_routines" collection: _id -> document
    routine_baseline_docs, \* "routine_baselines" as the nightly job writes it
    job               \* the routine learner job and its local variables

sysVars == <<clock, events, alerts, pushed, baselines, baseline_cache,
             household_state, last_check_time, recent_alerts, state_locks,
             task, lastSched, nIngested, nAcks, nRestarts, log, state_day>>
rpVars == <<rp_input, rp_order, rp_state>>
rlVars == <<rl_in, rl_out>>
fnVars == <<fn_in, fn_out>>
jobVars == <<daily_routines, routine_baseline_docs, job>>
vars == <<sysVars, rpVars, rlVars, fnVars, jobVars>>

----------------------------------------------------------------------------
(* Bounds *)

\* inputs of the environment in one run: events ingested, acknowledgements,
\* restarts and hours of elapsed time, together
MaxInputs == 3
\* events given to one replay
MaxReplayLen == 3
\* ":"-separated parts of a time string
MaxParts == 3

(* Program constants *)

ALERT_COOLDOWN_HOURS == 2
MinutesPerHour == 60
MinutesPerDay == 24 * MinutesPerHour
\* total_seconds() < 86400
CacheTtlMinutes == 86400 \div 60
InactivityHours == 2
InactivityAfterMinutes == 480
KitchenGraceMinutes == 30
BathroomMargin == 2
LateWakeGraceMinutes == 60

CRITICAL_EVENTS_door_only == {"door"}
CRITICAL_EVENTS == {"door", "sos_button"}

SCHEDULED_CHECKS == {<<9, 0>>, <<11, 0>>, <<14, 0>>, <<22, 0>>}

None == <<>>
Some(x) == <<x>>

Households == {"h1", "h2"}

----------------------------------------------------------------------------
(* Time helpers *)

Date(t) == t \div MinutesPerDay
DayStart(t) == Date(t) * MinutesPerDay
MinuteOfDay(t) == t % MinutesPerDay
\* an event timestamp that is not an ISO date-time, such as "not-a-date"
BadTs == -1
\* >= on timestamp strings, as the store compares them: "not-a-date" is above
\* every ISO date-time
TsGe(a, b) == a = BadTs \/ (b # BadTs /\ a >= b)
\* ts[11:16]: the "HH:MM" part of an ISO timestamp, "" for "not-a-date"
HHMM(ts) ==
    IF ts = BadTs THEN None
    ELSE <<MinuteOfDay(ts) \div MinutesPerHour, ts % MinutesPerHour>>

time_to_minutes(time_str) ==
    IF Len(time_str) = 2 THEN Some(time_str[1] * 60 + time_str[2]) ELSE None

\* Python truthiness of an optional number: None and 0 are falsy
Truthy(opt) == opt # None /\ opt[1] # 0

----------------------------------------------------------------------------
(* The daily state and _update_state *)

FreshState ==
    [wake_detected |-> FALSE, kitchen_visited |-> FALSE, bathroom_count |-> 0,
     last_motion_time |-> None, last_location |-> None, door_opened |-> FALSE,
     first_kitchen_time |-> None, wake_up_time |-> None]

IsBathroom(loc) == loc \in {"bathroom1", "bathroom2"}

\* faulty variants of _update_state: the first-occurrence guard dropped, and the
\* bathroom counter decremented instead of incremented
UpdateState_overwrite(state, event) ==
    LET stype == event.sensor_type
        loc == event.location
        val == event.value
        ts == event.timestamp
        s1 == IF stype = "bed_presence" /\ val = FALSE
              THEN [state EXCEPT !.wake_detected = TRUE, !.wake_up_time = HHMM(ts)]
              ELSE state
        s2 == IF stype = "motion" /\ loc = "kitchen" /\ val = TRUE
              THEN [s1 EXCEPT !.kitchen_visited = TRUE, !.first_kitchen_time = HHMM(ts)]
              ELSE s1
        s3 == IF stype = "motion" /\ IsBathroom(loc) /\ val = TRUE
              THEN [s2 EXCEPT !.bathroom_count = @ + 1]
              ELSE s2
        s4 == IF stype = "motion" /\ val = TRUE
              THEN [s3 EXCEPT !.last_motion_time = Some(ts), !.last_location = Some(loc)]
              ELSE s3
    IN  IF stype = "door" /\ loc = "entrance"
        THEN [s4 EXCEPT !.door_opened = TRUE]
        ELSE s4

UpdateState_decrement(state, event) ==
    LET stype == event.sensor_type
        loc == event.location
        val == event.value
        ts == event.timestamp
        s1 == IF stype = "bed_presence" /\ val = FALSE /\ ~state.wake_detected
              THEN [state EXCEPT !.wake_detected = TRUE, !.wake_up_time = HHMM(ts)]
              ELSE state
        s2 == IF stype = "motion" /\ loc = "kitchen" /\ val = TRUE /\ ~s1.kitchen_visited
              THEN [s1 EXCEPT !.kitchen_visited = TRUE, !.first_kitchen_time = HHMM(ts)]
              ELSE s1
        s3 == IF stype = "motion" /\ IsBathroom(loc) /\ val = TRUE
              THEN [s2 EXCEPT !.bathroom_count = @ - 1]
              ELSE s2
        s4 == IF stype = "motion" /\ val = TRUE
              THEN [s3 EXCEPT !.last_motion_time = Some(ts), !.last_location = Some(loc)]
              ELSE s3
    IN  IF stype = "door" /\ loc = "entrance"
        THEN [s4 EXCEPT !.door_opened = TRUE]
        ELSE s4

UpdateState(state, event) ==
    LET stype == event.sensor_type
        loc == event.location
        val == event.value
        ts == event.timestamp
        s1 == IF stype = "bed_presence" /\ val = FALSE /\ ~state.wake_detected
              THEN [state EXCEPT !.wake_detected = TRUE, !.wake_up_time = HHMM(ts)]
              ELSE state
        s2 == IF stype = "motion" /\ loc = "kitchen" /\ val = TRUE /\ ~s1.kitchen_visited
              THEN [s1 EXCEPT !.kitchen_visited = TRUE, !.first_kitchen_time = HHMM(ts)]
              ELSE s1
        s3 == IF stype = "motion" /\ IsBathroom(loc) /\ val = TRUE
              THEN [s2 EXCEPT !.bathroom_count = @ + 1]
              ELSE s2
        s4 == IF stype = "motion" /\ val = TRUE
              THEN [s3 EXCEPT !.last_motion_time = Some(ts), !.last_location = Some(loc)]
              ELSE s3
    IN  IF stype = "door" /\ loc = "entrance"
        THEN [s4 EXCEPT !.door_opened = TRUE]
        ELSE s4

\* "for event in events: self._update_state(state, event)"
RECURSIVE ReplayEvents(_, _)
ReplayEvents(state, evs) ==
    IF evs = <<>> THEN state
    ELSE ReplayEvents(UpdateState(state, Head(evs)), Tail(evs))

----------------------------------------------------------------------------
(* Python dicts: functions with a finite domain *)

Has(d, k) == k \in DOMAIN d
Get(d, k) == IF k \in DOMAIN d THEN Some(d[k]) ELSE None
Put(d, k, v) == [x \in DOMAIN d \cup {k} |-> IF x = k THEN v ELSE d[x]]
Del(d, k) ==
    IF DOMAIN d \ {k} = {} THEN <<>> ELSE [x \in DOMAIN d \ {k} |-> d[x]]

----------------------------------------------------------------------------
(* Stores *)

Ev(h, stype, loc, val, ts) ==
    [household_id |-> h, sensor_type |-> stype, location |-> loc,
     value |-> val, timestamp |-> ts]

RECURSIVE SelectSeq2(_, _, _)
\* the events of household h with timestamp >= since, in store order
SelectSeq2(evs, h, since) ==
    IF evs = <<>> THEN <<>>
    ELSE LET e == Head(evs)
             rest == SelectSeq2(Tail(evs), h, since)
         IN  IF e.household_id = h /\ TsGe(e.timestamp, since)
             THEN <<e>> \o rest ELSE rest

RECURSIVE SortByTimestamp(_)
\* sort=[("timestamp", 1)]: stable insertion sort
SortByTimestamp(evs) ==
    IF evs = <<>> THEN <<>>
    ELSE LET sortedTail == SortByTimestamp(Tail(evs))
             e == Head(evs)
             before == SelectSeq(sortedTail, LAMBDA x : ~TsGe(x.timestamp, e.timestamp))
             after == SelectSeq(sortedTail, LAMBDA x : TsGe(x.timestamp, e.timestamp))
         IN  before \o <<e>> \o after

\* the query of get_today_state; today is the time at which it was issued
TodayEvents(evs, h, today) == SortByTimestamp(SelectSeq2(evs, h, DayStart(today)))

RECURSIVE DistinctHouseholds(_)
\* MongoDB.distinct("events", "household_id"), in order of first appearance
DistinctHouseholds(evs) ==
    IF evs = <<>> THEN <<>>
    ELSE LET init == DistinctHouseholds(SubSeq(evs, 1, Len(evs) - 1))
             h == evs[Len(evs)].household_id
         IN  IF \E i \in DOMAIN init : init[i] = h THEN init ELSE Append(init, h)

CooldownMinutes == ALERT_COOLDOWN_HOURS * MinutesPerHour

\* a faulty variant of the alert lookup: $gt instead of $gte
AlertQuery_gt(store, h, ty, cur) ==
    {a \in store : /\ a.household_id = h
                   /\ a.type = ty
                   /\ a.timestamp > cur - CooldownMinutes
                   /\ a.acknowledged = FALSE}

\* the de-duplication query of check_anomalies
AlertQuery(store, h, ty, cur) ==
    {a \in store : /\ a.household_id = h
                   /\ a.type = ty
                   /\ a.timestamp >= cur - CooldownMinutes
                   /\ a.acknowledged = FALSE}

\* _id = "{household_id}_{timestamp}_{type}".  The timestamp has microsecond
\* resolution, so two evaluations never produce the same _id although the
\* minute clock of this model gives them the same time: seq stands for the
\* part of the timestamp below the minute.
AlertId(h, ts, ty, seq) == <<h, ts, ty, seq>>

\* a faulty variant of should_send_alert: the comparison reversed
should_send_alert_reversed(last_sent, now) ==
    IF last_sent # None /\ now - last_sent[1] > CooldownMinutes THEN FALSE ELSE TRUE

\* should_send_alert, given recent_alerts[household_id].get(alert_type)
should_send_alert(last_sent, now) ==
    IF last_sent # None /\ now - last_sent[1] < CooldownMinutes THEN FALSE ELSE TRUE

TheBaseline ==
    [first_kitchen_time |-> [latest |-> <<8, 0>>],
     bathroom_visits |-> [max_daily |-> 1],
     wake_up_time |-> [latest |-> <<23, 0>>]]

\* a faulty variant of the rules: inactivity reported at exactly two hours
Anomalies_inactivity_at_two_hours(state, baseline, now) ==
    LET current_minutes == MinuteOfDay(now)
        latest_kitchen_mins == time_to_minutes(baseline.first_kitchen_time.latest)
        kitchen ==
            IF /\ state.wake_detected /\ ~state.kitchen_visited
               /\ baseline.first_kitchen_time.latest # None
               /\ Truthy(latest_kitchen_mins)
               /\ current_minutes > latest_kitchen_mins[1] + KitchenGraceMinutes
            THEN <<"missed_kitchen_activity">> ELSE <<>>
        inactivity ==
            IF /\ state.last_motion_time # None
               /\ now - state.last_motion_time[1] >= InactivityHours * MinutesPerHour
               /\ current_minutes > InactivityAfterMinutes
            THEN <<"prolonged_inactivity">> ELSE <<>>
        bathroom ==
            IF /\ baseline.bathroom_visits.max_daily # 0
               /\ state.bathroom_count > baseline.bathroom_visits.max_daily + BathroomMargin
            THEN <<"excessive_bathroom_visits">> ELSE <<>>
        latest_wake_mins == time_to_minutes(baseline.wake_up_time.latest)
        actual_wake_mins == time_to_minutes(state.wake_up_time)
        late ==
            IF /\ state.wake_detected /\ state.wake_up_time # None
               /\ baseline.wake_up_time.latest # None
               /\ Truthy(actual_wake_mins) /\ Truthy(latest_wake_mins)
               /\ actual_wake_mins[1] > latest_wake_mins[1] + LateWakeGraceMinutes
            THEN <<"late_wake_up">> ELSE <<>>
    IN  kitchen \o inactivity \o bathroom \o late

\* the rules of check_anomalies: the types of the anomalies found, in order
Anomalies(state, baseline, now) ==
    LET current_minutes == MinuteOfDay(now)
        latest_kitchen_mins == time_to_minutes(baseline.first_kitchen_time.latest)
        kitchen ==
            IF /\ state.wake_detected /\ ~state.kitchen_visited
               /\ baseline.first_kitchen_time.latest # None
               /\ Truthy(latest_kitchen_mins)
               /\ current_minutes > latest_kitchen_mins[1] + KitchenGraceMinutes
            THEN <<"missed_kitchen_activity">> ELSE <<>>
        inactivity ==
            IF /\ state.last_motion_time # None
               /\ now - state.last_motion_time[1] > InactivityHours * MinutesPerHour
               /\ current_minutes > InactivityAfterMinutes
            THEN <<"prolonged_inactivity">> ELSE <<>>
        bathroom ==
            IF /\ baseline.bathroom_visits.max_daily # 0
               /\ state.bathroom_count > baseline.bathroom_visits.max_daily + BathroomMargin
            THEN <<"excessive_bathroom_visits">> ELSE <<>>
        latest_wake_mins == time_to_minutes(baseline.wake_up_time.latest)
        actual_wake_mins == time_to_minutes(state.wake_up_time)
        late ==
            IF /\ state.wake_detected /\ state.wake_up_time # None
               /\ baseline.wake_up_time.latest # None
               /\ Truthy(actual_wake_mins) /\ Truthy(latest_wake_mins)
               /\ actual_wake_mins[1] > latest_wake_mins[1] + LateWakeGraceMinutes
            THEN <<"late_wake_up">> ELSE <<>>
    IN  kitchen \o inactivity \o bathroom \o late

\* datetime.fromisoformat(state["last_motion_time"]) raises ValueError
RulesRaise(state) == state.last_motion_time = Some(BadTs)

\* the "severity" each rule of check_anomalies gives its anomaly
Severity(ty) ==
    CASE ty = "missed_kitchen_activity" -> "medium"
      [] ty = "prolonged_inactivity" -> "high"
      [] ty = "excessive_bathroom_visits" -> "medium"
      [] ty = "late_wake_up" -> "low"

----------------------------------------------------------------------------
(* Replay specification: _update_state applied to a fresh state, one event *)
(* at a time, in any order of a bounded list of one day's events.          *)

ReplayEventSet ==
    { Ev("h1", "bed_presence", "bedroom1", FALSE, 390),
      Ev("h1", "bed_presence", "bedroom1", FALSE, 420),
      Ev("h1", "bed_presence", "bedroom1", TRUE, 400),
      Ev("h1", "motion", "kitchen", TRUE, 420),
      Ev("h1", "motion", "kitchen", TRUE, 450),
      Ev("h1", "motion", "bathroom1", TRUE, 400) }

RECURSIVE SeqsUpTo(_, _)
SeqsUpTo(S, n) ==
    IF n = 0 THEN {<<>>}
    ELSE LET shorter == SeqsUpTo(S, n - 1)
         IN  shorter \cup {Append(q, x) : q \in shorter, x \in S}

SysIdle ==
    /\ clock = 0
    /\ events = <<>>
    /\ alerts = {}
    /\ pushed = {}
    /\ baselines = [h \in Households |-> None]
    /\ baseline_cache = <<>>
    /\ household_state = <<>>
    /\ last_check_time = <<>>
    /\ recent_alerts = <<>>
    /\ state_locks = <<>>
    /\ task = <<>>
    /\ lastSched = -1
    /\ nIngested = 0
    /\ nAcks = 0
    /\ nRestarts = 0
    /\ log = <<>>
    /\ state_day = <<>>

ReplayIdle ==
    /\ rp_input = <<>>
    /\ rp_order = <<>>
    /\ rp_state = FreshState

RulesIdle ==
    /\ rl_in = <<>>
    /\ rl_out = <<>>

FnIdle ==
    /\ fn_in = <<>>
    /\ fn_out = <<>>

\* no routine learner job: empty collections, nothing running
IdleJob ==
    [pc |-> "idle", yesterday |-> 0, todo |-> <<>>, today |-> 0, households |-> {},
     saved |-> {}, runs |-> 0]

JobIdle ==
    /\ daily_routines = <<>>
    /\ routine_baseline_docs = <<>>
    /\ job = IdleJob

InitReplay ==
    /\ SysIdle
    /\ RulesIdle
    /\ FnIdle
    /\ JobIdle
    /\ rp_input \in SeqsUpTo(ReplayEventSet, MaxReplayLen) \ {<<>>}
    /\ rp_order = <<>>
    /\ rp_state = FreshState

Applied == {rp_order[i] : i \in DOMAIN rp_order}

\* apply one not yet applied event of the input
ApplyEvent(i) ==
    /\ i \in DOMAIN rp_input \ Applied
    /\ rp_state' = UpdateState(rp_state, rp_input[i])
    /\ rp_order' = Append(rp_order, i)
    /\ UNCHANGED <<rp_input, sysVars, rlVars, fnVars, jobVars>>

NextReplay == \E i \in 1..MaxReplayLen : ApplyEvent(i)

SpecReplay == InitReplay /\ [][NextReplay]_vars

\* the applied events in the order of application / in the order of the input
AppliedSeq == [k \in DOMAIN rp_order |-> rp_input[rp_order[k]]]
InOrder == \A k \in DOMAIN rp_order : rp_order[k] = k
Rest == SubSeq(rp_input, Len(rp_order) + 1, Len(rp_input))
AllApplied == Len(rp_order) = Len(rp_input)

IsWake(e) == e.sensor_type = "bed_presence" /\ e.value = FALSE
IsKitchen(e) == e.sensor_type = "motion" /\ e.location = "kitchen" /\ e.value = TRUE
IsBath(e) == e.sensor_type = "motion" /\ IsBathroom(e.location) /\ e.value = TRUE

\* C5: once wake_up_time (first_kitchen_time) has a value, applying further
\* events never changes it.
C5_FirstOccurrenceKept ==
    [][ /\ (rp_state.wake_up_time # None
              => rp_state'.wake_up_time = rp_state.wake_up_time)
        /\ (rp_state.first_kitchen_time # None
              => rp_state'.first_kitchen_time = rp_state.first_kitchen_time) ]_vars

\* the same wake event applied twice and then a later, different one
C5_Witness ==
    /\ Len(rp_order) = 3
    /\ IsWake(AppliedSeq[1]) /\ AppliedSeq[2] = AppliedSeq[1]
    /\ IsWake(AppliedSeq[3]) /\ AppliedSeq[3].timestamp > AppliedSeq[1].timestamp
    /\ rp_state.wake_up_time = HHMM(AppliedSeq[1].timestamp)

C7_OrderIndependent ==
    AllApplied =>
        /\ rp_state.wake_up_time = ReplayEvents(FreshState, rp_input).wake_up_time
        /\ rp_state.first_kitchen_time
             = ReplayEvents(FreshState, rp_input).first_kitchen_time

\* the time of the first event of seqn among the positions idx
FirstOf(seqn, idx) ==
    IF idx = {} THEN None
    ELSE HHMM(seqn[CHOOSE k \in idx : \A j \in idx : k <= j].timestamp)

\* C7 amended: the flags do not depend on the order, and each time is that of
\* the first qualifying event in the order of application.
C7_FirstAppliedWins ==
    /\ rp_state.wake_up_time
         = FirstOf(AppliedSeq, {k \in DOMAIN AppliedSeq : IsWake(AppliedSeq[k])})
    /\ rp_state.first_kitchen_time
         = FirstOf(AppliedSeq, {k \in DOMAIN AppliedSeq : IsKitchen(AppliedSeq[k])})
    /\ AllApplied =>
         /\ rp_state.wake_detected
              = ReplayEvents(FreshState, rp_input).wake_detected
         /\ rp_state.kitchen_visited
              = ReplayEvents(FreshState, rp_input).kitchen_visited

\* the later wake event applied first: its time is kept
C7_Witness ==
    /\ AllApplied /\ Len(rp_input) >= 2
    /\ IsWake(AppliedSeq[1]) /\ IsWake(AppliedSeq[2])
    /\ AppliedSeq[1].timestamp > AppliedSeq[2].timestamp
    /\ rp_state.wake_up_time = HHMM(AppliedSeq[1].timestamp)
    /\ rp_state.wake_up_time # ReplayEvents(FreshState, rp_input).wake_up_time

----------------------------------------------------------------------------
(* Rules specification: the rules of check_anomalies applied once to a     *)
(* state, a baseline and a current time drawn from bounded sets.           *)

RuleCounts == {0, 2, 3, 4, 9}
RuleMotions == {None, Some(300), Some(360), Some(361), Some(420)}
RuleKitchenLatest == {None, <<0, 0>>, <<0, 30>>, <<8, 0>>, <<23, 59>>}
RuleMaxDaily == {0, 1, 6}
RuleNows == {31, 61, 480, 481, 540, 1439}

\* states _update_state can produce: a wake or kitchen time is recorded
\* exactly when its flag is set
RuleStates ==
    { [FreshState EXCEPT !.wake_detected = w,
                         !.wake_up_time = IF w THEN <<6, 30>> ELSE None,
                         !.kitchen_visited = k,
                         !.first_kitchen_time = IF k THEN <<7, 0>> ELSE None,
                         !.bathroom_count = c,
                         !.last_motion_time = m,
                         !.last_location = IF m = None THEN None ELSE Some("bedroom1")]
      : w \in BOOLEAN, k \in BOOLEAN, c \in RuleCounts, m \in RuleMotions }

\* baselines as aggregate_baselines writes them: "latest" is absent when no
\* day of the period has the field
RuleBaselines ==
    { [first_kitchen_time |-> [latest |-> kl],
       bathroom_visits |-> [max_daily |-> md],
       wake_up_time |-> [latest |-> <<7, 0>>]]
      : kl \in RuleKitchenLatest, md \in RuleMaxDaily }

InitRules ==
    /\ SysIdle
    /\ ReplayIdle
    /\ FnIdle
    /\ JobIdle
    /\ rl_in \in [state : RuleStates, baseline : RuleBaselines, now : RuleNows]
    /\ rl_out = None

\* the rule part of check_anomalies, on the input drawn
EvaluateRules ==
    /\ rl_out = None
    /\ rl_out' = Some(Anomalies(rl_in.state, rl_in.baseline, rl_in.now))
    /\ UNCHANGED <<rl_in, sysVars, rpVars, fnVars, jobVars>>

NextRules == EvaluateRules

SpecRules == InitRules /\ [][NextRules]_vars

\* the number of anomalies of type ty in a result
CountOf(found, ty) == Cardinality({j \in DOMAIN found : found[j] = ty})

\* C14: for every state, every baseline with a kitchen "latest" time and every
\* current time, the evaluation yields exactly one missed_kitchen_activity
\* anomaly, of severity medium, when wake is detected, the kitchen is not
\* visited and now_minutes > latest + 30, and none otherwise
C14_MissedKitchen ==
    (rl_out # None /\ rl_in.baseline.first_kitchen_time.latest # None) =>
        LET st == rl_in.state
            latest == rl_in.baseline.first_kitchen_time.latest
            due == /\ st.wake_detected
                   /\ ~st.kitchen_visited
                   /\ MinuteOfDay(rl_in.now)
                        > latest[1] * MinutesPerHour + latest[2] + KitchenGraceMinutes
        IN  /\ CountOf(rl_out[1], "missed_kitchen_activity") = IF due THEN 1 ELSE 0
            /\ Severity("missed_kitchen_activity") = "medium"

\* C15: for every bathroom_count and every baseline max_daily >= 0, 0 included,
\* the evaluation yields exactly one excessive_bathroom_visits anomaly when
\* bathroom_count > max_daily + 2 and none otherwise
C15_ExcessiveBathroom ==
    rl_out # None =>
        LET due == rl_in.state.bathroom_count
                     > rl_in.baseline.bathroom_visits.max_daily + BathroomMargin
        IN  CountOf(rl_out[1], "excessive_bathroom_visits") = IF due THEN 1 ELSE 0

\* C16: for every state and every current time, the evaluation yields exactly
\* one prolonged_inactivity anomaly, of severity high, when a last motion time
\* is recorded, more than 2 hours have passed since and the time of day is
\* past 08:00; it yields none otherwise, and none at all without a recorded
\* motion
C16_ProlongedInactivity ==
    rl_out # None =>
        LET st == rl_in.state
            due == /\ st.last_motion_time # None
                   /\ rl_in.now - st.last_motion_time[1] > InactivityHours * MinutesPerHour
                   /\ MinuteOfDay(rl_in.now) > InactivityAfterMinutes
        IN  /\ CountOf(rl_out[1], "prolonged_inactivity") = IF due THEN 1 ELSE 0
            /\ Severity("prolonged_inactivity") = "high"

\* last motion at 06:00, evaluated at 08:01: 121 minutes, past 08:00
C16_Witness ==
    /\ rl_out # None
    /\ rl_in.state.last_motion_time = Some(360)
    /\ rl_in.now = 481
    /\ CountOf(rl_out[1], "prolonged_inactivity") = 1

----------------------------------------------------------------------------
(* Time specification: time_to_minutes applied once to a time string, given *)
(* as the numbers between its colons ("25:00" is <<25, 0>>, "7" is <<7>>).  *)

TimeParts == {-1, 0, 7, 23, 24, 25, 59, 60}

InitTime ==
    /\ SysIdle
    /\ ReplayIdle
    /\ RulesIdle
    /\ JobIdle
    /\ fn_in \in SeqsUpTo(TimeParts, MaxParts)
    /\ fn_out = None

ConvertTime ==
    /\ fn_out = None
    /\ fn_out' = Some(time_to_minutes(fn_in))
    /\ UNCHANGED <<fn_in, sysVars, rpVars, rlVars, jobVars>>

NextTime == ConvertTime

SpecTime == InitTime /\ [][NextTime]_vars

\* C25: time_to_minutes returns hour * 60 + minute for every valid HH:MM time
\* of day (hour 0 to 23, minute 0 to 59) and None for every other string, an
\* out-of-range hour such as "25:00" included
C25_TimeOfDayOrNone ==
    fn_out # None =>
        LET valid == /\ Len(fn_in) = 2
                     /\ fn_in[1] \in 0..23
                     /\ fn_in[2] \in 0..59
        IN  fn_out[1] = IF valid THEN Some(fn_in[1] * MinutesPerHour + fn_in[2])
                        ELSE None

----------------------------------------------------------------------------
(* Routine specification: extract_routine applied to a bounded list of one *)
(* day's events and to a permutation of it, next to the state the live     *)
(* tracker builds from the same events in timestamp order.                 *)

\* events given to one extraction
MaxRoutineLen == 3

IsBedroom(loc) == loc \in {"bedroom1", "bedroom2"}

\* the local variables of extract_routine before its loop
RoutineStart ==
    [wake_up_time |-> None, bed_time |-> None, first_kitchen |-> None,
     bathroom_first |-> None, bathroom_count |-> 0,
     first_bedroom_motion |-> None, last_bedroom_motion |-> None,
     activity_start |-> None, activity_end |-> None]

\* one iteration of the loop of extract_routine
ScanEvent(acc, event) ==
    LET ts == HHMM(event.timestamp)
        stype == event.sensor_type
        loc == event.location
        val == event.value
        a1 == [acc EXCEPT !.activity_start = IF @ = None THEN ts ELSE @,
                          !.activity_end = ts]
        a2 == IF stype = "bed_presence" /\ val = FALSE /\ a1.wake_up_time = None
              THEN [a1 EXCEPT !.wake_up_time = ts] ELSE a1
        a3 == IF stype = "bed_presence" /\ val = TRUE
              THEN [a2 EXCEPT !.bed_time = ts] ELSE a2
        a4 == IF stype = "motion" /\ loc = "kitchen" /\ val = TRUE
                 /\ a3.first_kitchen = None
              THEN [a3 EXCEPT !.first_kitchen = ts] ELSE a3
        a5 == IF stype = "motion" /\ IsBathroom(loc) /\ val = TRUE
              THEN [a4 EXCEPT !.bathroom_first = IF @ = None THEN ts ELSE @,
                              !.bathroom_count = @ + 1]
              ELSE a4
    IN  IF stype = "motion" /\ IsBedroom(loc) /\ val = TRUE
        THEN [a5 EXCEPT !.first_bedroom_motion = IF @ = None THEN ts ELSE @,
                        !.last_bedroom_motion = ts]
        ELSE a5

RECURSIVE ScanRoutine(_, _)
\* "for event in events_sorted"
ScanRoutine(acc, evs) ==
    IF evs = <<>> THEN acc
    ELSE ScanRoutine(ScanEvent(acc, Head(evs)), Tail(evs))

\* a faulty variant of the sort of extract_routine: the input order is kept
events_sorted_as_given(evs) == evs

\* sorted(events, key=lambda x: x["timestamp"]): stable, ascending
events_sorted(evs) == SortByTimestamp(evs)

extract_routine(evs) ==
    LET r == ScanRoutine(RoutineStart, events_sorted(evs))
    IN  [wake_up_time |-> IF r.wake_up_time = None THEN r.first_bedroom_motion
                          ELSE r.wake_up_time,
         bed_time |-> IF r.bed_time = None THEN r.last_bedroom_motion ELSE r.bed_time,
         first_kitchen_time |-> r.first_kitchen,
         bathroom_first_time |-> r.bathroom_first,
         total_bathroom_events |-> r.bathroom_count,
         activity_start |-> r.activity_start,
         activity_end |-> r.activity_end,
         total_events |-> Len(evs)]

RoutineEventSet ==
    { Ev("h1", "bed_presence", "bedroom1", FALSE, 390),
      Ev("h1", "bed_presence", "bedroom1", FALSE, 420),
      Ev("h1", "bed_presence", "bedroom1", TRUE, 1320),
      Ev("h1", "motion", "kitchen", TRUE, 420),
      Ev("h1", "motion", "kitchen", TRUE, 450),
      Ev("h1", "motion", "bathroom1", TRUE, 400),
      Ev("h1", "motion", "bedroom1", TRUE, 380) }

\* the bijections of 1..n
PermsOf(n) == {f \in [1..n -> 1..n] : \A i, j \in 1..n : f[i] = f[j] => i = j}

InitRoutine ==
    /\ SysIdle
    /\ ReplayIdle
    /\ RulesIdle
    /\ JobIdle
    /\ \E evs \in SeqsUpTo(RoutineEventSet, MaxRoutineLen) :
          \E f \in PermsOf(Len(evs)) :
             fn_in = [events |-> evs,
                      shuffled |-> [i \in 1..Len(evs) |-> evs[f[i]]]]
    /\ fn_out = None

\* the extraction of both lists, and the replay of get_today_state
ExtractRoutine ==
    /\ fn_out = None
    /\ fn_out' = Some([given |-> extract_routine(fn_in.events),
                       shuffled |-> extract_routine(fn_in.shuffled),
                       live |-> ReplayEvents(FreshState, SortByTimestamp(fn_in.events))])
    /\ UNCHANGED <<fn_in, sysVars, rpVars, rlVars, jobVars>>

NextRoutine == ExtractRoutine

SpecRoutine == InitRoutine /\ [][NextRoutine]_vars

\* C24: extract_routine does not depend on the order of its input: a list of
\* one day's events and every permutation of it give the same routine
C24_ExtractOrderIndependent ==
    fn_out # None => fn_out[1].given = fn_out[1].shuffled

\* a list that is not in timestamp order and a different permutation of it
C24_Witness ==
    /\ fn_out # None
    /\ fn_in.events # fn_in.shuffled
    /\ fn_in.events # SortByTimestamp(fn_in.events)
    /\ fn_out[1].given.wake_up_time = <<6, 30>>
    /\ fn_out[1].given.total_events = MaxRoutineLen

\* C30: for every list of one day's events taken in timestamp order, the state
\* built by _update_state has the wake time, the first kitchen time and the
\* bathroom count of the routine extract_routine derives from the same events
C30_TrackerAgreesWithExtractor ==
    fn_out # None =>
        /\ fn_out[1].live.wake_up_time = fn_out[1].given.wake_up_time
        /\ fn_out[1].live.first_kitchen_time = fn_out[1].given.first_kitchen_time
        /\ fn_out[1].live.bathroom_count = fn_out[1].given.total_bathroom_events

----------------------------------------------------------------------------
(* The detector as a system of coroutines *)

EventTasks == {"u1"}
SchedTask == "s"
Tasks == EventTasks \cup {SchedTask}

StartClocks == {540, 1320}
TickMinutes == MinutesPerHour

EventInputs ==
    { [household_id |-> "h1", sensor_type |-> "bed_presence", location |-> "bedroom1", value |-> FALSE],
      [household_id |-> "h1", sensor_type |-> "door", location |-> "entrance", value |-> TRUE],
      [household_id |-> "h1", sensor_type |-> "panic", location |-> "bedroom1", value |-> TRUE],
      [household_id |-> "h2", sensor_type |-> "sos_button", location |-> "bedroom1", value |-> TRUE] }

\* the local variables of a coroutine; inEval, sent, peerSent, overlapped,
\* prevCheck, memLast, memAt, dbSeen, cause, bcAge, ids, visited, failed and
\* entered are history fields; snap is the result of a query that has run in
\* the store and not yet returned
IdleTask ==
    [pc |-> "idle", hh |-> "", ev |-> None, baseline |-> None, cur |-> 0,
     cause |-> "", bcAge |-> None, ids |-> <<>>, visited |-> <<>>, failed |-> {},
     entered |-> 0, snap |-> <<>>,
     anoms |-> <<>>, idx |-> 0, todo |-> <<>>, qday |-> 0, created_at |-> 0,
     alert_id |-> <<>>,
     evals |-> 0, inEval |-> FALSE, sent |-> {}, peerSent |-> {},
     overlapped |-> FALSE, prevCheck |-> None, memLast |-> None, memAt |-> 0,
     dbSeen |-> FALSE]

\* the in-memory state of the detector and the tasks, as one value that the
\* synchronous code between two awaits transforms
World ==
    [bc |-> baseline_cache, hs |-> household_state, lct |-> last_check_time,
     ra |-> recent_alerts, locks |-> state_locks, tk |-> task, sd |-> state_day,
     alerts |-> alerts, log |-> <<>>]

Commit(w) ==
    /\ baseline_cache' = w.bc
    /\ household_state' = w.hs
    /\ last_check_time' = w.lct
    /\ recent_alerts' = w.ra
    /\ state_locks' = w.locks
    /\ task' = w.tk
    /\ state_day' = w.sd
    /\ log' = w.log

Emit(w, e) == [w EXCEPT !.log = Append(@, e)]

LockHolder(w, h) == IF Has(w.locks, h) THEN w.locks[h] ELSE None

\* household_state[h] = state (or del when state = None), observed; op names
\* the statement that does it
SetState(w, self, h, state, day, op) ==
    LET old == Get(w.hs, h)
        w1 == IF state = None
              THEN [w EXCEPT !.hs = Del(@, h), !.sd = Del(@, h)]
              ELSE [w EXCEPT !.hs = Put(@, h, state[1]), !.sd = Put(@, h, day)]
    IN  IF old = state THEN w1
        ELSE Emit(w1, [k |-> "mutate", hh |-> h, by |-> self,
                       holder |-> LockHolder(w, h), op |-> op,
                       had |-> old # None])

RecentAlert(w, h, ty) ==
    IF Has(w.ra, h) /\ Has(w.ra[h], ty) THEN Some(w.ra[h][ty]) ELSE None

\* the alert types of check_anomalies
AlertTypes ==
    {"missed_kitchen_activity", "prolonged_inactivity",
     "excessive_bathroom_visits", "late_wake_up"}

\* a faulty variant of mark_alert_sent: the household's cooldown is restarted
\* for every type
mark_alert_sent_every_type(ra, h, ty, now) ==
    Put(ra, h, [t \in AlertTypes |-> now])

\* mark_alert_sent
mark_alert_sent(ra, h, ty, now) ==
    Put(ra, h, Put(IF Has(ra, h) THEN ra[h] ELSE <<>>, ty, now))

\* a faulty variant of check_and_reset_daily_cache: the cached state is
\* discarded on every call, whatever the date
check_and_reset_daily_cache_always(w, self, h, now) ==
    LET last_reset == Get(w.lct, h)
        w1 == IF /\ last_reset # None
                 /\ Has(w.hs, h)
              THEN Emit(SetState(w, self, h, None, 0, "reset"),
                        [k |-> "reset", hh |-> h, by |-> self,
                         last_reset |-> last_reset[1], now |-> now])
              ELSE w
    IN  [w1 EXCEPT !.lct = Put(@, h, now)]

check_and_reset_daily_cache(w, self, h, now) ==
    LET last_reset == Get(w.lct, h)
        w1 == IF /\ last_reset # None
                 /\ Date(last_reset[1]) < Date(now)
                 /\ Has(w.hs, h)
              THEN Emit(SetState(w, self, h, None, 0, "reset"),
                        [k |-> "reset", hh |-> h, by |-> self,
                         last_reset |-> last_reset[1], now |-> now])
              ELSE w
    IN  [w1 EXCEPT !.lct = Put(@, h, now)]

MaxOf(S) == CHOOSE x \in S : \A y \in S : y <= x

\* what an evaluation decided about one anomaly, observed
Decision(w, self, outcome) ==
    LET t == w.tk[self]
        ty == t.anoms[t.idx]
        prior == {a \in w.alerts : a.household_id = t.hh /\ a.type = ty}
        lastTs == IF prior = {} THEN -1 ELSE MaxOf({a.timestamp : a \in prior})
    IN  [k |-> "decide", by |-> self, hh |-> t.hh, ty |-> ty, outcome |-> outcome,
         cur |-> t.cur, memLast |-> t.memLast, memAt |-> t.memAt,
         dbSeen |-> t.dbSeen, lastTs |-> lastTs,
         lastUnacked |-> \E a \in prior : a.timestamp = lastTs /\ ~a.acknowledged,
         sequential |-> ~t.overlapped]

RECURSIVE CA_Entry(_, _, _, _), CA_GetState(_, _, _), CA_Eval(_, _, _),
          CA_Loop(_, _, _), CA_Return(_, _, _, _), SchedNext(_, _, _)

\* a faulty variant of update_state_on_event: a failed evaluation is swallowed
UpdReturn_swallow(w, self, raised) ==
    LET t == w.tk[self]
    IN  Emit([w EXCEPT !.tk[self] = IdleTask],
             [k |-> "return", by |-> self, hh |-> t.hh,
              sensor_type |-> t.ev[1].sensor_type,
              evals |-> t.evals, raised |-> FALSE, cause |-> t.cause,
              effect_kept |-> /\ Has(w.hs, t.hh)
                              /\ UpdateState(w.hs[t.hh], t.ev[1]) = w.hs[t.hh],
              same_day |-> /\ Has(w.sd, t.hh)
                           /\ w.sd[t.hh] = Date(t.ev[1].timestamp),
              holder |-> LockHolder(w, t.hh)])

\* update_state_on_event returns (or raises) to the ingestion caller
UpdReturn(w, self, raised) ==
    LET t == w.tk[self]
    IN  Emit([w EXCEPT !.tk[self] = IdleTask],
             [k |-> "return", by |-> self, hh |-> t.hh,
              sensor_type |-> t.ev[1].sensor_type,
              evals |-> t.evals, raised |-> raised, cause |-> t.cause,
              effect_kept |-> /\ Has(w.hs, t.hh)
                              /\ UpdateState(w.hs[t.hh], t.ev[1]) = w.hs[t.hh],
              same_day |-> /\ Has(w.sd, t.hh)
                           /\ w.sd[t.hh] = Date(t.ev[1].timestamp),
              holder |-> LockHolder(w, t.hh)])

\* check_anomalies returns or raises: back in update_state_on_event, or in
\* the try/except of scheduled_anomaly_check
CA_Return(w, self, now, raised) ==
    LET t == w.tk[self]
        w1 == Emit(w, [k |-> "eval_return", by |-> self, hh |-> t.hh,
                       raised |-> raised, cause |-> t.cause,
                       anoms |-> t.anoms, sent |-> t.sent,
                       failed |-> IF t.idx \in DOMAIN t.anoms
                                  THEN Some(t.anoms[t.idx]) ELSE None,
                       bad_motion_time |->
                           /\ Has(w.hs, t.hh)
                           /\ w.hs[t.hh].last_motion_time = Some(BadTs)])
    IN  IF self = SchedTask
        THEN SchedNext([w1 EXCEPT !.tk[self].failed =
                            IF raised THEN @ \cup {t.hh} ELSE @], self, now)
        ELSE UpdReturn(w1, self, raised)

\* a faulty variant of the loop of scheduled_anomaly_check: no try/except, the
\* first failing household ends the check
SchedNext_stops_on_failure(w, self, now) ==
    LET rest == Tail(w.tk[self].todo)
        t == w.tk[self]
    IN  IF rest = <<>> \/ t.cause # ""
        THEN Emit([w EXCEPT !.tk[self] = IdleTask],
                  [k |-> "sched_done", ids |-> t.ids, visited |-> t.visited,
                   failed |-> t.failed])
        ELSE CA_Entry([w EXCEPT !.tk[self].todo = rest], self, Head(rest), now)

\* "for h_id in household_ids": the household at the head of todo is done
SchedNext(w, self, now) ==
    LET rest == Tail(w.tk[self].todo)
        t == w.tk[self]
    IN  IF rest = <<>>
        THEN Emit([w EXCEPT !.tk[self] = IdleTask],
                  [k |-> "sched_done", ids |-> t.ids, visited |-> t.visited,
                   failed |-> t.failed])
        ELSE CA_Entry([w EXCEPT !.tk[self].todo = rest], self, Head(rest), now)

\* the de-duplication loop, up to the next await
CA_Loop(w, self, now) ==
    LET t == w.tk[self]
    IN  IF t.idx > Len(t.anoms) THEN CA_Return(w, self, now, FALSE)
        ELSE LET last == RecentAlert(w, t.hh, t.anoms[t.idx])
                 w1 == [w EXCEPT !.tk[self].memLast = last, !.tk[self].memAt = now]
             IN  IF ~should_send_alert(last, now)
                 THEN CA_Loop([Emit(w1, Decision(w1, self, "mem_skip"))
                                  EXCEPT !.tk[self].idx = @ + 1], self, now)
                 ELSE [w1 EXCEPT !.tk[self].pc = "alert_read"]

\* lines 157-222: apply last_event, evaluate the rules
CA_Eval(w, self, now) ==
    LET t == w.tk[self]
        h == t.hh
        state == IF t.ev # None THEN UpdateState(w.hs[h], t.ev[1]) ELSE w.hs[h]
        w1 == SetState(w, self, h, Some(state), w.sd[h], "reapply")
        w2 == Emit(w1, [k |-> "use", op |-> "eval", hh |-> h, by |-> self,
                        now |-> now, lastChecked |-> t.prevCheck,
                        entered |-> t.entered,
                        used_day |-> w.sd[h]])
    IN  IF RulesRaise(state)
        THEN CA_Return([w2 EXCEPT !.tk[self].cause = "bad_timestamp"], self, now, TRUE)
        ELSE CA_Loop([w2 EXCEPT !.tk[self].cur = now,
                                !.tk[self].anoms = Anomalies(state, t.baseline[1], now),
                                !.tk[self].idx = 1], self, now)

\* get_today_state as called by check_anomalies
CA_GetState(w, self, now) ==
    IF Has(w.hs, w.tk[self].hh) THEN CA_Eval(w, self, now)
    ELSE [w EXCEPT !.tk[self].pc = "eval_read_events", !.tk[self].qday = now]

\* a faulty variant of the cache test of get_baseline: valid at 24 hours too
baseline_cache_valid_inclusive(cached_at, now) == now - cached_at <= CacheTtlMinutes

\* (now - cached['cached_at']).total_seconds() < 86400
baseline_cache_valid(cached_at, now) == now - cached_at < CacheTtlMinutes

\* a faulty variant of lines 152-155: a default baseline stands in for a
\* missing one
CA_Baseline_default(w, self, now, found) ==
    CA_GetState([w EXCEPT !.tk[self].baseline =
                     IF found = None THEN Some(TheBaseline) ELSE found], self, now)

\* lines 151-156: get_baseline has returned found; no baseline, no evaluation
CA_Baseline(w, self, now, found) ==
    IF found = None THEN CA_Return(w, self, now, FALSE)
    ELSE CA_GetState([w EXCEPT !.tk[self].baseline = found], self, now)

\* check_anomalies(h), up to its first await
CA_Entry(w, self, h, now) ==
    LET peers == {t \in Tasks \ {self} : w.tk[t].inEval /\ w.tk[t].hh = h}
        tk1 == [t \in Tasks |->
                  IF t = self
                  THEN [w.tk[t] EXCEPT !.hh = h, !.inEval = TRUE, !.sent = {},
                           !.entered = now,
                           !.visited = IF t = SchedTask THEN Append(@, h) ELSE @,
                           !.peerSent = UNION {w.tk[p].sent : p \in peers},
                           !.overlapped = (peers # {}), !.prevCheck = Get(w.lct, h),
                           !.baseline = None, !.cur = 0, !.anoms = <<>>, !.idx = 0,
                           !.memLast = None, !.memAt = 0, !.dbSeen = FALSE,
                           !.cause = "", !.bcAge = None]
                  ELSE IF t \in peers THEN [w.tk[t] EXCEPT !.overlapped = TRUE]
                  ELSE w.tk[t]]
        w1 == check_and_reset_daily_cache([w EXCEPT !.tk = tk1], self, h, now)
        age == IF Has(w1.bc, h) THEN Some(now - w1.bc[h].cached_at) ELSE None
    IN  IF Has(w1.bc, h) /\ baseline_cache_valid(w1.bc[h].cached_at, now)
        THEN CA_Baseline(Emit(w1, [k |-> "get_baseline", hh |-> h, by |-> self,
                                   age |-> age, read_store |-> FALSE,
                                   returned |-> Some(w1.bc[h].baseline),
                                   cached |-> Some(w1.bc[h].baseline)]),
                         self, now, Some(w1.bc[h].baseline))
        ELSE [w1 EXCEPT !.tk[self].pc = "base_read", !.tk[self].bcAge = age]

\* lines 61-66: apply the event, release the lock, evaluate if critical
UpdApply(w, self, now) ==
    LET t == w.tk[self]
        h == t.hh
        e == t.ev[1]
        w1 == Emit(w, [k |-> "use", op |-> "apply", hh |-> h, by |-> self,
                       now |-> now, lastChecked |-> Get(w.lct, h),
                       entered |-> now,
                       used_day |-> w.sd[h]])
        w2 == SetState(w1, self, h, Some(UpdateState(w.hs[h], e)), w.sd[h], "apply")
        w3 == [w2 EXCEPT !.locks = Put(@, h, None)]
    IN  IF e.sensor_type \in CRITICAL_EVENTS
        THEN CA_Entry(Emit([w3 EXCEPT !.tk[self].evals = @ + 1],
                           [k |-> "call_eval", by |-> self, hh |-> h,
                            holder |-> LockHolder(w3, h),
                            applied |-> (w3.hs[h] = UpdateState(w.hs[h], e))]),
                      self, h, now)
        ELSE UpdReturn(w3, self, FALSE)

----------------------------------------------------------------------------
(* Actions *)

\* hours elapsed since the start of the run
Elapsed == (clock - MaxOf({c \in StartClocks : c <= clock})) \div TickMinutes

\* inputs of the environment so far
Inputs == nIngested + nAcks + nRestarts + Elapsed

Frame == UNCHANGED <<rpVars, rlVars, fnVars, jobVars>>

\* the ingestion endpoint stores the event and then calls update_state_on_event
Ingest(t, inp) ==
    /\ task[t].pc = "idle"
    /\ Inputs < MaxInputs
    /\ nIngested' = nIngested + 1
    /\ events' = Append(events, Ev(inp.household_id, inp.sensor_type, inp.location,
                                   inp.value, clock))
    /\ task' = [task EXCEPT ![t] = [IdleTask EXCEPT !.pc = "start",
                    !.hh = inp.household_id,
                    !.ev = Some(Ev(inp.household_id, inp.sensor_type, inp.location,
                                   inp.value, clock))]]
    /\ log' = <<>>
    /\ UNCHANGED <<clock, alerts, pushed, baselines, baseline_cache, household_state,
                   last_check_time, recent_alerts, state_locks, lastSched, state_day,
                   nAcks, nRestarts>>
    /\ Frame

\* the same for an event whose "timestamp" string is not a date-time
IngestMalformed(t, inp) ==
    /\ task[t].pc = "idle"
    /\ Inputs < MaxInputs
    /\ nIngested' = nIngested + 1
    /\ events' = Append(events, Ev(inp.household_id, inp.sensor_type, inp.location,
                                   inp.value, BadTs))
    /\ task' = [task EXCEPT ![t] = [IdleTask EXCEPT !.pc = "start",
                    !.hh = inp.household_id,
                    !.ev = Some(Ev(inp.household_id, inp.sensor_type, inp.location,
                                   inp.value, BadTs))]]
    /\ log' = <<>>
    /\ UNCHANGED <<clock, alerts, pushed, baselines, baseline_cache, household_state,
                   last_check_time, recent_alerts, state_locks, lastSched, state_day,
                   nAcks, nRestarts>>
    /\ Frame

\* update_state_on_event: take the lock, get_today_state up to its read
UpdStart(t) ==
    /\ task[t].pc = "start"
    /\ LockHolder(World, task[t].hh) = None
    /\ LET h == task[t].hh
           w == [World EXCEPT !.locks = Put(@, h, Some(t))]
       IN  Commit(IF Has(w.hs, h) THEN UpdApply(w, t, clock)
                  ELSE [w EXCEPT !.tk[t].pc = "upd_read", !.tk[t].qday = clock])
    /\ UNCHANGED <<clock, events, alerts, pushed, baselines, lastSched, nIngested, nAcks, nRestarts>>
    /\ Frame

\* get_today_state under the lock: the read returns, the state is built
UpdRead(t) ==
    /\ task[t].pc = "upd_read"
    /\ LET h == task[t].hh
           built == ReplayEvents(FreshState, TodayEvents(events, h, task[t].qday))
           w == SetState(World, t, h, Some(built), Date(task[t].qday), "build")
       IN  Commit(UpdApply(w, t, clock))
    /\ UNCHANGED <<clock, events, alerts, pushed, baselines, lastSched, nIngested, nAcks, nRestarts>>
    /\ Frame

\* get_baseline: the read of routine_baselines returns
BaseRead(t) ==
    /\ task[t].pc = "base_read"
    /\ LET h == task[t].hh
           found == baselines[h]
           w == IF found # None
                THEN [World EXCEPT
                         !.bc = Put(@, h, [baseline |-> found[1], cached_at |-> clock])]
                ELSE World
       IN  Commit(CA_Baseline(Emit(w, [k |-> "get_baseline", hh |-> h, by |-> t,
                                       age |-> task[t].bcAge, read_store |-> TRUE,
                                       returned |-> found,
                                       cached |-> IF Has(baseline_cache, h)
                                                  THEN Some(baseline_cache[h].baseline)
                                                  ELSE None]),
                              t, clock, found))
    /\ UNCHANGED <<clock, events, alerts, pushed, baselines, lastSched, nIngested, nAcks, nRestarts>>
    /\ Frame

\* get_today_state called by check_anomalies: the read returns
EvalReadEvents(t) ==
    /\ task[t].pc = "eval_read_events"
    /\ LET h == task[t].hh
           built == ReplayEvents(FreshState, TodayEvents(events, h, task[t].qday))
           w == SetState(World, t, h, Some(built), Date(task[t].qday), "eval_build")
       IN  Commit(CA_Eval(w, t, clock))
    /\ UNCHANGED <<clock, events, alerts, pushed, baselines, lastSched, nIngested, nAcks, nRestarts>>
    /\ Frame

\* the alert store holds an unacknowledged alert of (h, ty) in the window
UnackedInWindow(h, ty, cur) ==
    \E a \in alerts : /\ a.household_id = h /\ a.type = ty /\ ~a.acknowledged
                      /\ cur - a.timestamp <= CooldownMinutes

\* the de-duplication read returns; save_alert up to its write
AlertRead(t) ==
    /\ task[t].pc = "alert_read"
    /\ LET tt == task[t]
           recent_alert == AlertQuery(alerts, tt.hh, tt.anoms[tt.idx], tt.cur)
           w == [World EXCEPT !.tk[t].dbSeen =
                     UnackedInWindow(tt.hh, tt.anoms[tt.idx], tt.cur)]
       IN  Commit(IF recent_alert # {}
                  THEN CA_Loop([Emit(w, Decision(w, t, "db_skip"))
                                   EXCEPT !.tk[t].idx = @ + 1], t, clock)
                  ELSE [w EXCEPT !.tk[t].pc = "alert_write",
                                 !.tk[t].created_at = clock])
    /\ UNCHANGED <<clock, events, alerts, pushed, baselines, lastSched, nIngested, nAcks, nRestarts>>
    /\ Frame

\* MongoDB.write("alerts", anomaly): insert_one of a document whose _id no
\* stored document has (see AlertId)
AlertWrite(t) ==
    /\ task[t].pc = "alert_write"
    /\ LET tt == task[t]
           ty == tt.anoms[tt.idx]
           seq == Cardinality({a \in alerts : /\ a.household_id = tt.hh /\ a.type = ty
                                              /\ a.timestamp = tt.cur})
           doc == [id |-> AlertId(tt.hh, tt.cur, ty, seq), household_id |-> tt.hh,
                   type |-> ty, timestamp |-> tt.cur, created_at |-> tt.created_at,
                   acknowledged |-> FALSE]
       IN  /\ alerts' = alerts \cup {doc}
           /\ Commit([Emit(World, Decision(World, t, "persist"))
                         EXCEPT !.tk[t].pc = "alert_push",
                                !.tk[t].alert_id = doc.id])
    /\ UNCHANGED <<clock, events, pushed, baselines, lastSched, nIngested, nAcks, nRestarts>>
    /\ Frame

\* a faulty variant of push_to_frontend: an undelivered alert raises
push_to_frontend_raises(delivered) == ~delivered

\* push_to_frontend raises: never, manager.send_alert returns when there is
\* no connection and catches the failure of each send
push_to_frontend(delivered) == FALSE

\* manager.send_alert returns (delivered or not); mark_alert_sent; next anomaly
AlertPush(t, delivered) ==
    /\ task[t].pc = "alert_push"
    /\ LET tt == task[t]
           ty == tt.anoms[tt.idx]
           raises == push_to_frontend(delivered)
           peers == {p \in Tasks \ {t} : task[p].inEval /\ task[p].hh = tt.hh}
           tk1 == [p \in Tasks |->
                     IF p = t THEN [tt EXCEPT !.sent = @ \cup {ty}, !.idx = @ + 1]
                     ELSE IF p \in peers THEN [task[p] EXCEPT !.peerSent = @ \cup {ty}]
                     ELSE task[p]]
           w == Emit([World EXCEPT !.ra = mark_alert_sent(@, tt.hh, ty, clock),
                                   !.tk = tk1],
                     [k |-> "emit", by |-> t, hh |-> tt.hh, ty |-> ty,
                      alert_id |-> tt.alert_id,
                      delivered |-> delivered, second |-> ty \in tt.peerSent])
           failed == Emit([World EXCEPT !.tk[t].cause = "push"],
                          [k |-> "emit", by |-> t, hh |-> tt.hh, ty |-> ty,
                           alert_id |-> tt.alert_id,
                           delivered |-> delivered, second |-> ty \in tt.peerSent])
       IN  /\ pushed' = IF delivered THEN pushed \cup {tt.alert_id} ELSE pushed
           /\ Commit(IF raises THEN CA_Return(failed, t, clock, TRUE)
                     ELSE CA_Loop(w, t, clock))
    /\ UNCHANGED <<clock, events, alerts, baselines, lastSched, nIngested, nAcks, nRestarts>>
    /\ Frame

\* get_baseline: the read of routine_baselines raises (store unavailable)
BaseReadFails(t) ==
    /\ task[t].pc = "base_read"
    /\ Commit(CA_Return([World EXCEPT !.tk[t].cause = "baseline_read"], t, clock, TRUE))
    /\ UNCHANGED <<clock, events, alerts, pushed, baselines, lastSched, nIngested, nAcks, nRestarts>>
    /\ Frame

\* the de-duplication read raises
AlertReadFails(t) ==
    /\ task[t].pc = "alert_read"
    /\ Commit(CA_Return([World EXCEPT !.tk[t].cause = "alert_lookup"], t, clock, TRUE))
    /\ UNCHANGED <<clock, events, alerts, pushed, baselines, lastSched, nIngested, nAcks, nRestarts>>
    /\ Frame

\* MongoDB.write("alerts", anomaly) raises: nothing is stored, save_alert and
\* check_anomalies pass the exception on
AlertWriteFails(t) ==
    /\ task[t].pc = "alert_write"
    /\ Commit(CA_Return([World EXCEPT !.tk[t].cause = "alert_write"], t, clock, TRUE))
    /\ UNCHANGED <<clock, events, alerts, pushed, baselines, lastSched, nIngested, nAcks, nRestarts>>
    /\ Frame

\* the cron trigger fires scheduled_anomaly_check
SchedTick ==
    /\ task[SchedTask].pc = "idle"
    /\ HHMM(clock) \in SCHEDULED_CHECKS
    /\ lastSched # clock
    /\ lastSched' = clock
    /\ task' = [task EXCEPT ![SchedTask] = [IdleTask EXCEPT !.pc = "distinct"]]
    /\ log' = <<>>
    /\ UNCHANGED <<clock, events, alerts, pushed, baselines, baseline_cache,
                   household_state, last_check_time, recent_alerts, state_locks,
                   nIngested, nAcks, nRestarts, state_day>>
    /\ Frame

\* MongoDB.distinct returns; the loop over the households starts
SchedDistinct ==
    /\ task[SchedTask].pc = "distinct"
    /\ LET household_ids == DistinctHouseholds(events)
       IN  Commit(IF household_ids = <<>>
                  THEN [World EXCEPT !.tk[SchedTask] = IdleTask]
                  ELSE CA_Entry([World EXCEPT !.tk[SchedTask].todo = household_ids,
                                              !.tk[SchedTask].ids = household_ids],
                                SchedTask, Head(household_ids), clock))
    /\ UNCHANGED <<clock, events, alerts, pushed, baselines, lastSched, nIngested, nAcks, nRestarts>>
    /\ Frame

\* POST /alerts/{alert_id}/acknowledge
acknowledge_alert ==
    /\ Inputs < MaxInputs
    /\ \E a \in alerts :
          /\ ~a.acknowledged
          /\ alerts' = (alerts \ {a}) \cup {[a EXCEPT !.acknowledged = TRUE]}
    /\ nAcks' = nAcks + 1
    /\ log' = <<>>
    /\ UNCHANGED <<clock, events, pushed, baselines, baseline_cache, household_state,
                   last_check_time, recent_alerts, state_locks, task, lastSched,
                   nIngested, nRestarts, state_day>>
    /\ Frame

\* the process restarts: AnomalyDetector.__init__, no coroutine survives
Restart ==
    /\ Inputs < MaxInputs
    /\ nRestarts' = nRestarts + 1
    /\ \/ baseline_cache # <<>> \/ household_state # <<>> \/ recent_alerts # <<>>
       \/ last_check_time # <<>> \/ state_locks # <<>>
       \/ \E t \in Tasks : task[t].pc # "idle"
    /\ baseline_cache' = <<>>
    /\ household_state' = <<>>
    /\ last_check_time' = <<>>
    /\ recent_alerts' = <<>>
    /\ state_locks' = <<>>
    /\ state_day' = <<>>
    /\ task' = [t \in Tasks |-> IdleTask]
    /\ log' = <<>>
    /\ UNCHANGED <<clock, events, alerts, pushed, baselines, lastSched, nIngested, nAcks>>
    /\ Frame

Tick ==
    /\ Inputs < MaxInputs
    /\ clock' = clock + TickMinutes
    /\ log' = <<>>
    /\ UNCHANGED <<events, alerts, pushed, baselines, baseline_cache, household_state,
                   last_check_time, recent_alerts, state_locks, task, lastSched,
                   nIngested, nAcks, nRestarts, state_day>>
    /\ Frame

\* the process starts with an empty memory; the stores may already hold the
\* resident's wake event of the day
Init ==
    /\ clock \in StartClocks
    /\ events \in {<<>>, <<Ev("h1", "bed_presence", "bedroom1", FALSE, clock)>>}
    /\ alerts = {}
    /\ pushed = {}
    /\ baselines = [h \in Households |-> IF h = "h1" THEN Some(TheBaseline) ELSE None]
    /\ baseline_cache = <<>>
    /\ household_state = <<>>
    /\ last_check_time = <<>>
    /\ recent_alerts = <<>>
    /\ state_locks = <<>>
    /\ task = [t \in Tasks |-> IdleTask]
    /\ lastSched = -1
    /\ nIngested = 0
    /\ nAcks = 0
    /\ nRestarts = 0
    /\ log = <<>>
    /\ state_day = <<>>
    /\ ReplayIdle
    /\ RulesIdle
    /\ FnIdle
    /\ JobIdle

Next ==
    \/ \E t \in EventTasks, inp \in EventInputs : Ingest(t, inp)
    \/ \E t \in EventTasks : UpdStart(t)
    \/ \E t \in EventTasks : UpdRead(t)
    \/ \E t \in Tasks : BaseRead(t)
    \/ \E t \in Tasks : EvalReadEvents(t)
    \/ \E t \in Tasks : AlertRead(t)
    \/ \E t \in Tasks : AlertWrite(t)
    \/ \E t \in Tasks, delivered \in BOOLEAN : AlertPush(t, delivered)
    \/ SchedTick
    \/ SchedDistinct
    \/ acknowledge_alert
    \/ Restart
    \/ Tick

Spec == Init /\ [][Next]_vars

----------------------------------------------------------------------------
(* A day and more of scheduled checks of a household whose baseline is     *)
(* recomputed by the nightly job.                                          *)

\* hours of elapsed time in one run
MaxHours == 25

DayZeroStart == MinuteOfDay(MaxOf(StartClocks \ {MaxOf(StartClocks)}))

\* the baseline the nightly job writes next
NextBaseline == [TheBaseline EXCEPT !.bathroom_visits.max_daily = @ + 1]

InitDay ==
    /\ Init
    /\ clock = DayZeroStart
    /\ events # <<>>

\* an hour passes between two scheduled checks (a check takes less than the
\* hour to the next cron minute)
HourPasses ==
    /\ task[SchedTask].pc = "idle"
    /\ clock + TickMinutes <= DayZeroStart + MaxHours * MinutesPerHour
    /\ clock' = clock + TickMinutes
    /\ log' = <<>>
    /\ UNCHANGED <<events, alerts, pushed, baselines, baseline_cache, household_state,
                   last_check_time, recent_alerts, state_locks, task, lastSched,
                   nIngested, nAcks, nRestarts, state_day>>
    /\ Frame

\* aggregate_baselines writes a new baseline document for the household
BaselineRecomputed ==
    /\ baselines["h1"] = Some(TheBaseline)
    /\ baselines' = [baselines EXCEPT !["h1"] = Some(NextBaseline)]
    /\ log' = <<>>
    /\ UNCHANGED <<clock, events, alerts, pushed, baseline_cache, household_state,
                   last_check_time, recent_alerts, state_locks, task, lastSched,
                   nIngested, nAcks, nRestarts, state_day>>
    /\ Frame

NextDay ==
    \/ \E t \in Tasks : BaseRead(t)
    \/ \E t \in Tasks : EvalReadEvents(t)
    \/ \E t \in Tasks : AlertRead(t)
    \/ \E t \in Tasks : AlertWrite(t)
    \/ \E t \in Tasks, delivered \in BOOLEAN : AlertPush(t, delivered)
    \/ SchedTick
    \/ SchedDistinct
    \/ HourPasses
    \/ BaselineRecomputed

SpecDay == InitDay /\ [][NextDay]_vars

----------------------------------------------------------------------------
(* The same system with stores that can fail and events that can be        *)
(* malformed; no acknowledgement and no restart.                           *)

FaultEventInputs ==
    { [household_id |-> "h1", sensor_type |-> "door", location |-> "entrance", value |-> TRUE],
      [household_id |-> "h2", sensor_type |-> "bed_presence", location |-> "bedroom1", value |-> FALSE],
      [household_id |-> "h2", sensor_type |-> "sos_button", location |-> "bedroom1", value |-> TRUE] }

MalformedInputs ==
    { [household_id |-> "h1", sensor_type |-> "motion", location |-> "bedroom1", value |-> TRUE] }

NextFaults ==
    \/ \E t \in EventTasks, inp \in FaultEventInputs : Ingest(t, inp)
    \/ \E t \in EventTasks, inp \in MalformedInputs : IngestMalformed(t, inp)
    \/ \E t \in EventTasks : UpdStart(t)
    \/ \E t \in EventTasks : UpdRead(t)
    \/ \E t \in Tasks : BaseRead(t)
    \/ \E t \in Tasks : BaseReadFails(t)
    \/ \E t \in Tasks : EvalReadEvents(t)
    \/ \E t \in Tasks : AlertRead(t)
    \/ \E t \in Tasks : AlertReadFails(t)
    \/ \E t \in Tasks : AlertWrite(t)
    \/ \E t \in Tasks : AlertWriteFails(t)
    \/ \E t \in Tasks, delivered \in BOOLEAN : AlertPush(t, delivered)
    \/ SchedTick
    \/ SchedDistinct
    \/ Tick

SpecFaults == Init /\ [][NextFaults]_vars

----------------------------------------------------------------------------
(* The same system with the event query of an evaluation as two steps: the *)
(* store runs the query, and later the result reaches the coroutine.       *)
(* Events ingested in between are not in the result.                       *)

RaceInputs ==
    { [household_id |-> "h1", sensor_type |-> "motion", location |-> "bathroom1", value |-> TRUE],
      [household_id |-> "h1", sensor_type |-> "motion", location |-> "kitchen", value |-> TRUE] }

\* get_today_state called by check_anomalies: MongoDB.read runs in the store
EvalQueryRuns(t) ==
    /\ task[t].pc = "eval_read_events"
    /\ task' = [task EXCEPT ![t].pc = "eval_read_done",
                            ![t].snap = TodayEvents(events, task[t].hh, task[t].qday)]
    /\ log' = <<>>
    /\ UNCHANGED <<clock, events, alerts, pushed, baselines, baseline_cache,
                   household_state, last_check_time, recent_alerts, state_locks,
                   lastSched, nIngested, nAcks, nRestarts, state_day>>
    /\ Frame

\* ... and its result reaches get_today_state, which caches the state built
\* from it (lines 86-92)
EvalReadSnapshot(t) ==
    /\ task[t].pc = "eval_read_done"
    /\ LET h == task[t].hh
           built == ReplayEvents(FreshState, task[t].snap)
           w == SetState([World EXCEPT !.tk[t].snap = <<>>], t, h, Some(built),
                         Date(task[t].qday), "eval_build")
       IN  Commit(CA_Eval(w, t, clock))
    /\ UNCHANGED <<clock, events, alerts, pushed, baselines, lastSched, nIngested, nAcks, nRestarts>>
    /\ Frame

NextRace ==
    \/ \E t \in EventTasks, inp \in RaceInputs : Ingest(t, inp)
    \/ \E t \in EventTasks : UpdStart(t)
    \/ \E t \in EventTasks : UpdRead(t)
    \/ \E t \in Tasks : BaseRead(t)
    \/ \E t \in Tasks : EvalQueryRuns(t)
    \/ \E t \in Tasks : EvalReadSnapshot(t)
    \/ \E t \in Tasks : AlertRead(t)
    \/ \E t \in Tasks : AlertWrite(t)
    \/ \E t \in Tasks, delivered \in BOOLEAN : AlertPush(t, delivered)
    \/ SchedTick
    \/ SchedDistinct
    \/ Tick

SpecRace == Init /\ [][NextRace]_vars

----------------------------------------------------------------------------
(* Two households with a baseline on an evening on which the rules find    *)
(* two anomalies for the first and one for the second; the alert store can *)
(* fail.                                                                   *)

EveningStart == MaxOf(StartClocks)

\* the day's events in the store: both residents got up, the first one has
\* been to the bathroom four times, nobody has been to the kitchen
EveningEvents ==
    << Ev("h1", "bed_presence", "bedroom1", FALSE, EveningStart),
       Ev("h2", "bed_presence", "bedroom1", FALSE, EveningStart),
       Ev("h1", "motion", "bathroom1", TRUE, EveningStart),
       Ev("h1", "motion", "bathroom2", TRUE, EveningStart),
       Ev("h1", "motion", "bathroom1", TRUE, EveningStart),
       Ev("h1", "motion", "bathroom2", TRUE, EveningStart) >>

CooldownInputs ==
    { [household_id |-> "h1", sensor_type |-> "door", location |-> "entrance", value |-> TRUE] }

InitCooldown ==
    /\ clock = EveningStart
    /\ events = EveningEvents
    /\ alerts = {}
    /\ pushed = {}
    /\ baselines = [h \in Households |-> Some(TheBaseline)]
    /\ baseline_cache = <<>>
    /\ household_state = <<>>
    /\ last_check_time = <<>>
    /\ recent_alerts = <<>>
    /\ state_locks = <<>>
    /\ task = [t \in Tasks |-> IdleTask]
    /\ lastSched = -1
    /\ nIngested = 0
    /\ nAcks = 0
    /\ nRestarts = 0
    /\ log = <<>>
    /\ state_day = <<>>
    /\ ReplayIdle
    /\ RulesIdle
    /\ FnIdle
    /\ JobIdle

\* an hour passes while no call is in progress
QuietHourPasses ==
    /\ \A t \in Tasks : task[t].pc = "idle"
    /\ Tick

NextCooldown ==
    \/ \E t \in EventTasks, inp \in CooldownInputs : Ingest(t, inp)
    \/ \E t \in EventTasks : UpdStart(t)
    \/ \E t \in EventTasks : UpdRead(t)
    \/ \E t \in Tasks : BaseRead(t)
    \/ \E t \in Tasks : EvalReadEvents(t)
    \/ \E t \in Tasks : AlertRead(t)
    \/ \E t \in Tasks : AlertReadFails(t)
    \/ \E t \in Tasks : AlertWrite(t)
    \/ \E t \in Tasks : AlertWriteFails(t)
    \/ \E t \in Tasks, delivered \in BOOLEAN : AlertPush(t, delivered)
    \/ SchedTick
    \/ SchedDistinct
    \/ QuietHourPasses

SpecCooldown == InitCooldown /\ [][NextCooldown]_vars

----------------------------------------------------------------------------
(* The routine learner job: batch_routine_learner_and_baseline, started by *)
(* the 01:00 cron trigger or by POST /routines/trigger.                    *)

\* runs of the job, days of elapsed time and events stored in one behaviour
MaxRuns == 3
MaxDays == 2
MaxStored == 2

\* aggregate_baselines(n_days=7)
BaselineDays == 7

\* the cron trigger's time of day
JobMinute == 1 * MinutesPerHour

JobInputs ==
    { [household_id |-> "h1", sensor_type |-> "motion", location |-> "bathroom1", value |-> TRUE],
      [household_id |-> "h2", sensor_type |-> "bed_presence", location |-> "bedroom1", value |-> FALSE] }

RECURSIVE EventsBetween(_, _, _, _)
\* the events of the households hs with start <= timestamp < end, as stored
EventsBetween(evs, hs, start, end) ==
    IF evs = <<>> THEN <<>>
    ELSE LET e == Head(evs)
             rest == EventsBetween(Tail(evs), hs, start, end)
         IN  IF e.household_id \in hs /\ e.timestamp >= start /\ e.timestamp < end
             THEN <<e>> \o rest ELSE rest

\* the daily_routines documents of h with start <= date < end
RoutinesBetween(h, start, end) ==
    {id \in DOMAIN daily_routines :
        /\ daily_routines[id].household_id = h
        /\ daily_routines[id].date >= start /\ daily_routines[id].date < end}

JobFrame ==
    /\ UNCHANGED <<alerts, pushed, baselines, baseline_cache, household_state,
                   last_check_time, recent_alerts, state_locks, task, lastSched,
                   nIngested, nAcks, nRestarts, state_day>>
    /\ UNCHANGED <<rpVars, rlVars, fnVars>>

\* the job returns, or raises to its trigger
JobReturn(raised) ==
    [k |-> "job_done", run |-> job.runs, raised |-> raised, today |-> job.today,
     saved |-> job.saved]

\* aggregate_baselines up to its first await: today is taken from the clock
JobToAggregate(j) == [j EXCEPT !.pc = "aggregate", !.today = Date(clock)]

InitJob ==
    /\ clock = JobMinute
    /\ events = <<>>
    /\ alerts = {}
    /\ pushed = {}
    /\ baselines = [h \in Households |-> None]
    /\ baseline_cache = <<>>
    /\ household_state = <<>>
    /\ last_check_time = <<>>
    /\ recent_alerts = <<>>
    /\ state_locks = <<>>
    /\ task = <<>>
    /\ lastSched = -1
    /\ nIngested = 0
    /\ nAcks = 0
    /\ nRestarts = 0
    /\ log = <<>>
    /\ state_day = <<>>
    /\ ReplayIdle
    /\ RulesIdle
    /\ FnIdle
    /\ JobIdle

\* a sensor event is stored
StoreEvent(inp) ==
    /\ Len(events) < MaxStored
    /\ events' = Append(events, Ev(inp.household_id, inp.sensor_type, inp.location,
                                   inp.value, clock))
    /\ log' = <<>>
    /\ UNCHANGED <<clock, jobVars>>
    /\ JobFrame

DayPasses ==
    /\ Date(clock) < MaxDays
    /\ clock' = clock + MinutesPerDay
    /\ log' = <<>>
    /\ UNCHANGED <<events, jobVars>>
    /\ JobFrame

\* the job starts: get_yesterday_range, the events query is issued
JobStart ==
    /\ job.pc = "idle"
    /\ job.runs < MaxRuns
    /\ job' = [IdleJob EXCEPT !.pc = "read_events", !.runs = job.runs + 1,
                              !.yesterday = Date(clock) - 1]
    /\ log' = <<>>
    /\ UNCHANGED <<clock, events, daily_routines, routine_baseline_docs>>
    /\ JobFrame

\* yesterday's events arrive and are grouped by household; without events
\* batch_routine_learner_daily returns "no_data" and the aggregation starts
JobReadEvents ==
    /\ job.pc = "read_events"
    /\ LET start == job.yesterday * MinutesPerDay
           all_events == EventsBetween(events, Households, start, start + MinutesPerDay)
       IN  job' = IF all_events = <<>> THEN JobToAggregate(job)
                  ELSE [job EXCEPT !.pc = "save",
                                   !.todo = DistinctHouseholds(all_events)]
    /\ log' = <<>>
    /\ UNCHANGED <<clock, events, daily_routines, routine_baseline_docs>>
    /\ JobFrame

\* save_profile: date = datetime.now().strftime("%Y-%m-%d")
save_profile_date(now) == Date(now)

\* extract_routine and save_profile for the next household: insert_one
\* stores the document, or raises DuplicateKeyError when the _id exists, which
\* nothing in the job catches
JobSave ==
    /\ job.pc = "save"
    /\ LET h == Head(job.todo)
           start == job.yesterday * MinutesPerDay
           evs == EventsBetween(events, {h}, start, start + MinutesPerDay)
           date == save_profile_date(clock)
           id == <<h, date>>
           doc == [household_id |-> h, date |-> date, run |-> job.runs,
                   routine |-> extract_routine(evs)]
           rest == Tail(job.todo)
           j1 == [job EXCEPT !.todo = rest, !.saved = @ \cup {id}]
       IN  IF Has(daily_routines, id)
           THEN /\ job' = [IdleJob EXCEPT !.runs = job.runs]
                /\ log' = << [k |-> "save", hh |-> h, id |-> id, run |-> job.runs,
                              raised |-> TRUE, left |-> Len(rest)],
                             JobReturn(TRUE) >>
                /\ UNCHANGED daily_routines
           ELSE /\ daily_routines' = Put(daily_routines, id, doc)
                /\ job' = IF rest = <<>> THEN JobToAggregate(j1) ELSE j1
                /\ log' = << [k |-> "save", hh |-> h, id |-> id, run |-> job.runs,
                              raised |-> FALSE, left |-> Len(rest)] >>
    /\ UNCHANGED <<clock, events, routine_baseline_docs>>
    /\ JobFrame

\* the $match/$group pipeline returns the households with a routine dated in
\* [today - 7 days, today)
JobAggregate ==
    /\ job.pc = "aggregate"
    /\ LET hs == {h \in Households :
                    RoutinesBetween(h, job.today - BaselineDays, job.today) # {}}
       IN  IF hs = {}
           THEN /\ job' = [IdleJob EXCEPT !.runs = job.runs]
                /\ log' = << JobReturn(FALSE) >>
           ELSE /\ job' = [job EXCEPT !.pc = "baseline", !.households = hs]
                /\ log' = <<>>
    /\ UNCHANGED <<clock, events, daily_routines, routine_baseline_docs>>
    /\ JobFrame

\* the routines of the next household are read and its baseline document is
\* written (insert_one again)
JobBaseline(h) ==
    /\ job.pc = "baseline"
    /\ h \in job.households
    /\ LET docs == RoutinesBetween(h, job.today - BaselineDays, job.today)
           id == <<h, job.today>>
           doc == [household_id |-> h, end_date |-> job.today, docs |-> docs,
                   max_daily |-> MaxOf({daily_routines[d].routine.total_bathroom_events
                                          : d \in docs} \cup {0})]
           rest == job.households \ {h}
       IN  IF Has(routine_baseline_docs, id)
           THEN /\ job' = [IdleJob EXCEPT !.runs = job.runs]
                /\ log' = << JobReturn(TRUE) >>
                /\ UNCHANGED routine_baseline_docs
           ELSE /\ routine_baseline_docs' = Put(routine_baseline_docs, id, doc)
                /\ job' = IF rest = {} THEN [IdleJob EXCEPT !.runs = job.runs]
                           ELSE [job EXCEPT !.households = rest]
                /\ log' = IF rest = {} THEN << JobReturn(FALSE) >> ELSE <<>>
    /\ UNCHANGED <<clock, events, daily_routines>>
    /\ JobFrame

NextJob ==
    \/ \E inp \in JobInputs : StoreEvent(inp)
    \/ DayPasses
    \/ JobStart
    \/ JobReadEvents
    \/ JobSave
    \/ JobAggregate
    \/ \E h \in Households : JobBaseline(h)

SpecJob == InitJob /\ [][NextJob]_vars

----------------------------------------------------------------------------
(* Properties of the system *)

Logged(kind) == {i \in DOMAIN log : log[i].k = kind}

\* C1: of two overlapping evaluations of one household that find the same
\* anomaly type, at most one persists and pushes an alert of that type: no
\* evaluation emits a type that an overlapping evaluation has emitted.
C1_NoDoubleEmit ==
    \A i \in Logged("emit") : ~log[i].second

\* C2: the alert store never holds two alerts of one type for one household
\* created less than the cooldown apart.
C2_CooldownApart ==
    \A a, b \in alerts :
        (a # b /\ a.household_id = b.household_id /\ a.type = b.type
           /\ a.created_at <= b.created_at)
        => b.created_at - a.created_at >= CooldownMinutes

\* C3 as stated: with the anomaly still present, the alert of that type
\* unacknowledged and the cooldown memory intact, an evaluation that overlaps
\* no other one persists nothing less than 2 hours after the alert, and
\* persists a new alert at or after 2 hours.
C3_ReevaluationCooldown ==
    \A i \in Logged("decide") :
        (log[i].lastTs >= 0 /\ log[i].lastUnacked /\ log[i].memLast # None
           /\ log[i].sequential)
        => IF log[i].cur - log[i].lastTs < ALERT_COOLDOWN_HOURS * MinutesPerHour
           THEN log[i].outcome # "persist"
           ELSE log[i].outcome = "persist"

\* C3 amended: under the same conditions the re-evaluation persists a new alert
\* exactly when the in-memory record is at least 2 hours old at the check and
\* more than 2 hours have passed since the stored alert's timestamp; it
\* persists nothing less than 2 hours after the alert, nor at exactly 2 hours.
C3_PersistsOnceWindowLeft ==
    \A i \in Logged("decide") :
        (log[i].lastTs >= 0 /\ log[i].lastUnacked /\ log[i].memLast # None
           /\ log[i].sequential)
        => (log[i].outcome = "persist"
              <=> /\ log[i].memAt - log[i].memLast[1] >= ALERT_COOLDOWN_HOURS * MinutesPerHour
                  /\ log[i].cur - log[i].lastTs > ALERT_COOLDOWN_HOURS * MinutesPerHour)

\* a sequential re-evaluation exactly 2 hours after the alert: the in-memory
\* check passes and the stored alert still suppresses
C3_Witness ==
    \E i \in Logged("decide") :
        /\ log[i].lastTs >= 0 /\ log[i].lastUnacked /\ log[i].memLast # None
        /\ log[i].sequential
        /\ log[i].cur - log[i].lastTs = ALERT_COOLDOWN_HOURS * MinutesPerHour
        /\ log[i].memAt - log[i].memLast[1] >= ALERT_COOLDOWN_HOURS * MinutesPerHour
        /\ log[i].outcome = "db_skip"

\* C4: an alert is persisted only if both checks passed at that evaluation:
\* whenever the in-memory record was younger than the cooldown at the check,
\* or the store held an unacknowledged alert of the pair in the window at the
\* lookup, nothing is persisted for that anomaly.
C4_PersistOnlyIfBothPass ==
    \A i \in Logged("decide") :
        ( \/ (log[i].memLast # None
                /\ log[i].memAt - log[i].memLast[1] < ALERT_COOLDOWN_HOURS * MinutesPerHour)
          \/ log[i].dbSeen )
        => log[i].outcome # "persist"

\* after a restart the memory is empty and the stored alert suppresses
C4_Witness ==
    \E i \in Logged("decide") :
        /\ nRestarts > 0
        /\ log[i].memLast = None /\ log[i].dbSeen
        /\ log[i].outcome = "db_skip"

\* C8: once the date has advanced past the household's last-checked date, an
\* access to the state (applying an event, or evaluating) uses a state built
\* on the current date.
C8_RolloverOnEveryAccess ==
    \A i \in Logged("use") :
        (log[i].lastChecked # None /\ Date(log[i].lastChecked[1]) < Date(log[i].now))
        => log[i].used_day = Date(log[i].now)

\* C9: every change of a household's state is made by the task that holds
\* that household's lock, and an update whose household's lock is free is
\* never kept waiting.
C9_MutationUnderLock ==
    /\ \A i \in Logged("mutate") : log[i].holder = Some(log[i].by)
    /\ \A t \in EventTasks :
          (task[t].pc = "start" /\ LockHolder(World, task[t].hh) = None)
          => ENABLED UpdStart(t)

----------------------------------------------------------------------------
(* Properties of evaluations and their failures *)

\* the failures of a store operation of an evaluation
StoreCauses == {"baseline_read", "alert_lookup", "alert_write"}

\* C12: evaluating a household that has no baseline in the store (the read
\* succeeds and finds none) returns an empty anomaly list without raising;
\* no alert of the household is persisted, nothing is pushed and no cooldown
\* is recorded, whatever the household's state is
C12_NoBaselineNoAlert ==
    \A i \in Logged("eval_return") :
        (baselines[log[i].hh] = None /\ log[i].cause = "") =>
            /\ ~log[i].raised
            /\ log[i].anoms = <<>>
            /\ log[i].sent = {}
            /\ \A a \in alerts : a.household_id # log[i].hh
            /\ \A a \in alerts : a.id \in pushed => a.household_id # log[i].hh
            /\ ~Has(recent_alerts, log[i].hh)

\* the household without baseline is evaluated with a wake recorded
C12_Witness ==
    \E i \in Logged("eval_return") :
        /\ baselines[log[i].hh] = None /\ log[i].cause = ""
        /\ Has(household_state, log[i].hh)
        /\ household_state[log[i].hh].wake_detected

C18_WriteFailureStillPushes ==
    \A i \in Logged("eval_return") :
        log[i].cause = "alert_write" =>
            /\ log[i].raised
            /\ log[i].failed # None
            /\ log[i].failed[1] \in log[i].sent

C20_BadTimestampHarmless ==
    \A i \in Logged("eval_return") :
        log[i].bad_motion_time => (~log[i].raised \/ log[i].cause \in StoreCauses)

\* the statements of check_anomalies that assign or delete household_state[h]
EvalOps == {"reset", "eval_build", "reapply"}

\* C13 as stated: an evaluation leaves the household's daily state as it was:
\* no statement of check_anomalies changes or discards a state that exists
C13_EvaluationLeavesState ==
    \A i \in Logged("mutate") : log[i].op \in EvalOps => ~log[i].had

\* C13 amended: an evaluation never changes the baseline, and it changes an
\* existing daily state in three ways only: it discards the state when the
\* date has advanced since the household's last check, it stores the state it
\* has rebuilt from the store after finding none cached, and, when triggered
\* by an event, it applies that event once more
C13_OnlyRolloverDiscards ==
    /\ \A i \in Logged("mutate") :
          (log[i].op \in EvalOps /\ log[i].had) =>
              \/ /\ log[i].op = "reset"
                 /\ \E j \in Logged("reset") :
                       /\ log[j].hh = log[i].hh /\ log[j].by = log[i].by
                       /\ Date(log[j].last_reset) < Date(log[j].now)
              \/ log[i].op = "eval_build"
              \/ log[i].op = "reapply" /\ log[i].by \in EventTasks
    /\ baselines = [h \in Households |-> IF h = "h1" THEN Some(TheBaseline) ELSE None]

\* an evaluation triggered by an event discards yesterday's state
C13_Witness ==
    \E i \in Logged("mutate") :
        /\ log[i].op = "reset" /\ log[i].had /\ log[i].by \in EventTasks
        /\ ~Has(household_state, log[i].hh)

\* C11: get_baseline returns the cached baseline without reading the store
\* while the cache entry is less than 24 hours old; a call at or after 24
\* hours reads the store, returns the store's latest baseline and puts it in
\* the cache in place of the old entry
C11_BaselineCachedFor24Hours ==
    \A i \in Logged("get_baseline") :
        log[i].age # None =>
            IF log[i].age[1] < 24 * MinutesPerHour
            THEN ~log[i].read_store /\ log[i].returned = log[i].cached
            ELSE /\ log[i].read_store
                 /\ log[i].returned = baselines[log[i].hh]
                 /\ Has(baseline_cache, log[i].hh)
                 /\ baseline_cache[log[i].hh] =
                        [baseline |-> baselines[log[i].hh][1], cached_at |-> clock]

\* a call exactly 24 hours after the entry was cached replaces it by the
\* baseline recomputed since
C11_Witness ==
    \E i \in Logged("get_baseline") :
        /\ log[i].age = Some(24 * MinutesPerHour)
        /\ log[i].read_store
        /\ log[i].cached = Some(TheBaseline)
        /\ log[i].returned = Some(NextBaseline)
        /\ baseline_cache[log[i].hh].baseline = NextBaseline

\* C23: a scheduled check evaluates every household that has recorded events
\* exactly once, in the order of the list, whether or not the evaluation of a
\* household before it raised
C23_EveryHouseholdOnce ==
    \A i \in Logged("sched_done") : log[i].visited = log[i].ids

\* the evaluation of the first household raised and the second was evaluated
C23_Witness ==
    \E i \in Logged("sched_done") :
        /\ Len(log[i].ids) = 2
        /\ log[i].ids[1] \in log[i].failed
        /\ log[i].visited = log[i].ids

\* C29: whenever check_anomalies, called on the current calendar date,
\* evaluates the rules, the state it evaluates was built from the events of
\* that date, also at the first evaluation of a household whose state was
\* built on an earlier date
C29_EvaluatedStateIsOfToday ==
    \A i \in Logged("use") :
        (log[i].op = "eval" /\ Date(log[i].entered) = Date(log[i].now))
        => log[i].used_day = Date(log[i].now)

\* today's bathroom-motion events of h in the store
BathroomEventsOfDay(h, day) ==
    {i \in DOMAIN events : /\ events[i].household_id = h
                           /\ events[i].sensor_type = "motion"
                           /\ IsBathroom(events[i].location)
                           /\ events[i].timestamp # BadTs
                           /\ Date(events[i].timestamp) = day}

\* C28: when update_state_on_event has materialized the state from the event
\* store, which already holds the event being applied, bathroom_count is the
\* number of bathroom-motion events of the day, not one more
C28_CountedOnce ==
    \A i \in Logged("mutate") :
        (log[i].op = "build" /\ Has(household_state, log[i].hh))
        => household_state[log[i].hh].bathroom_count
             = Cardinality(BathroomEventsOfDay(log[i].hh, state_day[log[i].hh]))

\* the events of the store whose update_state_on_event has returned
ReturnedEvents ==
    {i \in DOMAIN events :
        \A t \in EventTasks :
            task[t].pc # "idle" => task[t].ev # Some(events[i])}

\* C27: once update_state_on_event has returned for an event, its effect is
\* in the household's state of that day, whatever a concurrent evaluation
\* that materializes the state does: every returned bathroom-motion event of
\* the day is in bathroom_count
C27_NoAppliedEventLost ==
    \A h \in DOMAIN household_state :
        household_state[h].bathroom_count
          >= Cardinality(BathroomEventsOfDay(h, state_day[h]) \cap ReturnedEvents)

\* recent_alerts[h][ty], if any
CooldownOf(ra, h, ty) == IF Has(ra, h) /\ Has(ra[h], ty) THEN Some(ra[h][ty]) ELSE None

\* C26: the in-memory cooldown timestamp of a (household, type) pair changes
\* only in the step in which an evaluation, having persisted an alert of that
\* pair, has pushed it; every other step, and that step for every other pair,
\* leaves it unchanged: also a suppressed anomaly and a failed alert write
C26_CooldownOnlyAfterPersist ==
    [][\A h \in Households, ty \in AlertTypes :
          CooldownOf(recent_alerts', h, ty) # CooldownOf(recent_alerts, h, ty)
          => \E i \in DOMAIN log' :
                /\ log'[i].k = "emit" /\ log'[i].hh = h /\ log'[i].ty = ty
                /\ recent_alerts'[h][ty] = clock
                /\ \E a \in alerts : /\ a.id = log'[i].alert_id
                                     /\ a.household_id = h /\ a.type = ty
                                     /\ a.timestamp = task[log'[i].by].cur]_vars

\* an alert of one type has just been marked while the cooldown of another
\* type of the household, marked earlier, is still there
C26_Witness ==
    \E i \in Logged("emit") :
        /\ CooldownOf(recent_alerts, log[i].hh, log[i].ty) = Some(clock)
        /\ \E ty \in AlertTypes \ {log[i].ty} :
              /\ CooldownOf(recent_alerts, log[i].hh, ty) # None
              /\ CooldownOf(recent_alerts, log[i].hh, ty) # Some(clock)

\* C21: save_profile succeeds also when a routine of the same (household_id,
\* date) exists, and the record then holds the content of this write; so no
\* run of the daily batch ends at a save
C21_SaveTwiceOverwrites ==
    \A i \in Logged("save") :
        /\ ~log[i].raised
        /\ daily_routines[log[i].id].run = log[i].run

\* C22: when a run of the job has returned, every routine it has written is
\* among the records of a baseline of that household written with the run's
\* date
C22_BaselineReflectsYesterday ==
    \A i \in Logged("job_done") :
        ~log[i].raised
        => \A id \in log[i].saved :
              /\ Has(routine_baseline_docs, <<id[1], log[i].today>>)
              /\ id \in routine_baseline_docs[<<id[1], log[i].today>>].docs

====
